---- MODULE Spec2Model ----
(***************************************************************************)
(* CancelToken built on an Observable (src/CancelToken.js).                *)
(*                                                                         *)
(* JavaScript is single threaded, but observer callbacks run in the middle *)
(* of _dispatch and may call back into the tokens.  The model therefore    *)
(* keeps the call stack explicitly: a _dispatch pass, a running observer   *)
(* callback and a running race constructor are frames, and user operations *)
(* are possible at top level and inside a running observer callback.       *)
(***************************************************************************)
EXTENDS Naturals, Sequences, FiniteSets

\* ------------------------------------------------------------------ bounds
MaxOps     == 4     \* calls made by user code in a run on one token
MaxRaceOps == 4     \* calls made by user code in a run with race tokens
MaxThrows  == 2     \* observer callbacks that raise in one run
MaxRaceLen == 2     \* length of the list handed to CancelToken.race
MaxLateOps == 3     \* calls made by user code in a run that starts after cancel
MaxLateLen == 3     \* length of the list handed to race in such a run

\* ------------------------------------------------------------------ values
\* JavaScript values that flow through trigger: undefined, a string, or a
\* Cancel object (s is its _msg, id the token whose trigger built it).
Undefined == [k |-> "undefined", s |-> "", id |-> 0]

Str(x) == [k |-> "string", s |-> x, id |-> 0]

Msgs == {Str("a"), Undefined}

\* String(msg): a string is itself, undefined is "undefined", and a Cancel
\* object, which defines no toString, is "[object Object]".
ToString(v) ==
  CASE v.k = "string"    -> v.s
    [] v.k = "undefined" -> "undefined"
    [] v.k = "Cancel"    -> "[object Object]"

\* new Cancel(msg), built by the trigger closure of token t.
Cancel(msg, t) == [k |-> "Cancel", s |-> ToString(msg), id |-> t]

VARIABLES
  reason,      \* reason[t]: token t's _reason
  observers,   \* observers[t]: token t's _observers, in insertion order
  tokinfo,     \* tokinfo[t]: how t was built and whether its constructor returned
  subs,        \* subs[s]: the Subscription made by the s-th subscribe call
  stack,       \* the call stack, innermost frame last
  log,         \* callbacks of user observers that were invoked, in order,
               \* each with the pass that invoked it
  raised,      \* errors raised by observer callbacks, in order
  hostErrors,  \* errors handed to HostReportErrors, in order
  escaped,     \* errors that reached the caller of trigger or subscribe
  calls,       \* calls[t]: the arguments of the trigger calls on t, in order
  passes,      \* passes[t]: _dispatch passes started by t's trigger
  fireOrder,   \* the tokens in the order their _reason was set
  left,        \* calls user code may still make in this run
  passlog,     \* per _dispatch pass: the set at its start and the calls it made
  result       \* outcome of throwIfRequested, when that was the last step

vars == <<reason, observers, tokinfo, subs, stack, log, raised, hostErrors,
          escaped, calls, passes, fireOrder, left, passlog, result>>

NoResult == [t |-> 0, threw |-> FALSE, val |-> Undefined]

Tokens == 1..Len(reason)
Subs   == 1..Len(subs)

Top == stack[Len(stack)]
Pop == SubSeq(stack, 1, Len(stack) - 1)

Frame(op, tok, sub, snap, i, ph, via) ==
  [op |-> op, tok |-> tok, sub |-> sub, snap |-> snap, i |-> i, ph |-> ph, via |-> via]

ReplaceTop(stk, f) == [stk EXCEPT ![Len(stk)] = f]

\* User code runs at top level and inside an observer's next/complete.
UserCtx == IF stack = <<>> THEN TRUE ELSE Top.op = "cb"

\* User code may make another call.
CanCall == UserCtx /\ left > 0

\* A token user code holds: its constructor has returned.
Live(t) == t \in Tokens /\ tokinfo[t].live

\* A token as its constructor leaves it before fn runs; allPending and
\* cancelledAtCall record the state of race's list when race was called.
NewToken(race, list) ==
  [race |-> race, list |-> list, live |-> ~race,
   allPending |-> \A i \in DOMAIN list : reason[list[i]] = Undefined,
   cancelledAtCall |-> SelectSeq(list, LAMBDA u : reason[u] # Undefined)]

\* A token CancelToken.source() returned.
SourceToken ==
  [race |-> FALSE, list |-> <<>>, live |-> TRUE, allPending |-> TRUE,
   cancelledAtCall |-> <<>>]

\* CancelToken.source(): the run starts with one token whose trigger user
\* code holds as source.cancel.
Init ==
  /\ reason = <<Undefined>> /\ observers = << <<>> >>
  /\ tokinfo = <<SourceToken>>
  /\ subs = <<>>
  /\ stack = <<>> /\ log = <<>> /\ raised = <<>> /\ hostErrors = <<>>
  /\ escaped = 0 /\ calls = << <<>> >> /\ passes = <<0>> /\ fireOrder = <<>>
  /\ left = MaxOps /\ passlog = <<>> /\ result = NoResult

\* ------------------------------------------------ the Observable (zen-observable)
\* new Observable(subscriber).subscribe(observer) wraps the observer in a
\* Subscription (open: its _observer is set; cleanup: its _cleanup is set) and
\* hands the subscriber a SubscriptionObserver, which is what _observers holds.
\* The SubscriptionObserver is the one of the zen-observable the token code
\* was written against (subscribe accepts a function; the try/catch of
\* _dispatch catches what it lets through): next on an open subscription
\* calls the observer's next and lets its error through; complete closes the
\* subscription, calls the observer's complete, then the cleanup function,
\* and lets an error through after the cleanup; both do nothing on a closed
\* subscription; unsubscribe closes and cleans up once.
\* fwd is the race token whose trigger is the observer's next (0: a user
\* observer with next and complete); handle: user code holds the subscription;
\* closedAt: how long the log was when unsubscribe closed the subscription;
\* during: the subscription was made while a _dispatch pass of t was running.
NewSubscription(t, fwd, how, handle) ==
  [tok |-> t, open |-> TRUE, cleanup |-> TRUE, fwd |-> fwd, handle |-> handle,
   how |-> how, late |-> reason[t] # Undefined, closedBy |-> "none",
   closedAt |-> 0, unsubAfter |-> FALSE,
   during |-> \E i \in DOMAIN stack : stack[i].op = "dispatch" /\ stack[i].tok = t]

\* The subscriber function: this._observers.add(observer).
AddObserver(obs, s) == Append(obs, s)

\* A cleanup function that forgets to delete.
DeleteObserverNoop(obs, s) == obs

\* The cleanup function the subscriber returns: this._observers.delete(observer).
DeleteObserver(obs, s) == SelectSeq(obs, LAMBDA y : y # s)

\* A cleanup that, for a forwarding observer of a race token, also removes
\* that race token's forwarding observers from the other inputs.
ObserversAfterTeardown(s) ==
  [u \in DOMAIN observers |->
     SelectSeq(observers[u],
               LAMBDA y : y # s /\ (subs[s].fwd = 0 \/ subs[y].fwd # subs[s].fwd))]

\* cleanupSubscription: call _cleanup once, if it is set.
ObserversAfterCleanup(s) ==
  IF subs[s].cleanup
    THEN [observers EXCEPT ![subs[s].tok] = DeleteObserver(@, s)]
    ELSE observers

\* ------------------------------------------------------------- CancelToken
\* The record of a _dispatch pass of t that starts with observer set obs.
StartPass(pl, t, via, obs) ==
  Append(pl, [tok |-> t, via |-> via, start |-> obs, visits |-> <<>>, done |-> FALSE])

\* The pass whose loop is running: the innermost one that has not returned.
CurPass ==
  CHOOSE n \in DOMAIN passlog :
    ~passlog[n].done /\ \A m \in DOMAIN passlog : m > n => passlog[m].done

\* The running pass calls method m (next, complete) of observer s of _observers.
Visit(s, m) == [sub |-> s, m |-> m]

Visited(v) == [passlog EXCEPT ![CurPass].visits = @ \o v]

\* A snapshot that misses the observer registered last.
SnapshotDropsLast(obs) == SubSeq(obs, 1, Len(obs) - 1)

\* Array.from(this._observers.values()): the snapshot _dispatch iterates.
Snapshot(obs) == obs

\* A trigger closure without the "this._reason === undefined" test.
TriggerNoGuard(t, msg, stk, pl) ==
  /\ calls' = [calls EXCEPT ![t] = Append(@, msg)]
  /\ passlog' = StartPass(pl, t, "trigger", observers[t])
  /\ reason' = [reason EXCEPT ![t] = Cancel(msg, t)]
  /\ fireOrder' = Append(fireOrder, t)
  /\ passes' = [passes EXCEPT ![t] = @ + 1]
  /\ stack' = Append(stk, Frame("dispatch", t, 0, Snapshot(observers[t]),
                                1, "next", "trigger"))

\* The trigger closure handed to fn, called with msg; stk is the stack the
\* call returns to, pl the pass log as the caller leaves it.
Trigger(t, msg, stk, pl) ==
  /\ calls' = [calls EXCEPT ![t] = Append(@, msg)]
  /\ IF reason[t] = Undefined
       THEN /\ reason' = [reason EXCEPT ![t] = Cancel(msg, t)]
            /\ passlog' = StartPass(pl, t, "trigger", observers[t])
            /\ fireOrder' = Append(fireOrder, t)
            /\ passes' = [passes EXCEPT ![t] = @ + 1]
            /\ stack' = Append(stk, Frame("dispatch", t, 0, Snapshot(observers[t]),
                                          1, "next", "trigger"))
       ELSE /\ reason' = reason /\ fireOrder' = fireOrder /\ passes' = passes
            /\ passlog' = pl
            /\ stack' = stk

\* A subscribe that runs _dispatch whatever the reason is.
SubscribeAlwaysReplays(t) == TRUE

\* A subscribe that never replays.
SubscribeNeverReplays(t) == FALSE

\* subscribe: "if (this._reason !== undefined) this._dispatch()".
SubscribeReplays(t) == reason[t] # Undefined

\* source.cancel(m), called by user code.
CancelCall(t, m) ==
  /\ CanCall /\ Live(t) /\ ~tokinfo[t].race
  /\ left' = left - 1
  /\ Trigger(t, m, stack, passlog)
  /\ result' = NoResult
  /\ UNCHANGED <<observers, tokinfo, subs, log, raised, hostErrors, escaped>>

\* token.subscribe(observer), called by user code with a fresh observer.
Subscribe(t) ==
  /\ CanCall /\ Live(t)
  /\ LET s    == Len(subs) + 1
         obs  == AddObserver(observers[t], s)
         late == SubscribeReplays(t)
     IN /\ subs' = Append(subs, NewSubscription(t, 0, "subscribe", ~late))
        /\ observers' = [observers EXCEPT ![t] = obs]
        /\ stack' = IF late
                      THEN Append(stack, Frame("dispatch", t, s, Snapshot(obs),
                                               1, "next", "subscribe"))
                      ELSE stack
        /\ passlog' = IF late THEN StartPass(passlog, t, "subscribe", obs)
                              ELSE passlog
  /\ left' = left - 1
  /\ result' = NoResult
  /\ UNCHANGED <<reason, tokinfo, log, raised, hostErrors, escaped, calls, passes,
                 fireOrder>>

\* token[Symbol.observable]().subscribe(observer): the Observable itself.
RawSubscribe(t) ==
  /\ CanCall /\ Live(t)
  /\ subs' = Append(subs, NewSubscription(t, 0, "raw", TRUE))
  /\ observers' = [observers EXCEPT ![t] = AddObserver(@, Len(subs) + 1)]
  /\ left' = left - 1
  /\ result' = NoResult
  /\ UNCHANGED <<passlog, reason, tokinfo, stack, log, raised, hostErrors, escaped, calls,
                 passes, fireOrder>>

\* subscription.unsubscribe(): closeSubscription, nothing when already closed.
Unsubscribe(s) ==
  /\ CanCall /\ s \in Subs /\ subs[s].handle
  /\ IF subs[s].open
       THEN /\ subs' = [subs EXCEPT ![s].open = FALSE, ![s].cleanup = FALSE,
                          ![s].closedBy = IF reason[subs[s].tok] = Undefined
                                            THEN "unsubPending" ELSE "unsubFired",
                          ![s].closedAt = Len(log)]
            /\ observers' = ObserversAfterCleanup(s)
       ELSE /\ subs' = [subs EXCEPT ![s].unsubAfter = TRUE]
            /\ observers' = observers
  /\ left' = left - 1
  /\ result' = NoResult
  /\ UNCHANGED <<passlog, reason, tokinfo, stack, log, raised, hostErrors, escaped, calls,
                 passes, fireOrder>>

\* get reason().
ReasonGet(t) == reason[t]

\* A throwIfRequested that never throws.
ThrowIfRequestedNever(t) == [t |-> t, threw |-> FALSE, val |-> Undefined]

\* throwIfRequested(): what the call does, as [threw, val].
ThrowIfRequestedOutcome(t) ==
  IF reason[t] # Undefined
    THEN [t |-> t, threw |-> TRUE, val |-> reason[t]]
    ELSE [t |-> t, threw |-> FALSE, val |-> Undefined]

ThrowIfRequested(t) ==
  /\ stack = <<>> /\ Live(t)
  /\ result' = ThrowIfRequestedOutcome(t)
  /\ UNCHANGED <<passlog, reason, observers, tokinfo, subs, stack, log, raised, hostErrors,
                 escaped, calls, passes, fireOrder, left>>

\* --------------------------------------------------------------- _dispatch
\* The frame on top is a _dispatch pass that has an observer left.
InPass == stack # <<>> /\ Top.op = "dispatch" /\ Top.i <= Len(Top.snap)

Cur == Top.snap[Top.i]

Advance == ReplaceTop(stack, [Top EXCEPT !.i = @ + 1, !.ph = "next"])

\* observer.next and observer.complete on a closed subscription both return
\* undefined without calling the observer.
DeliverClosed ==
  /\ InPass /\ ~subs[Cur].open
  /\ stack' = Advance
  /\ passlog' = Visited(IF Top.ph = "next"
                          THEN <<Visit(Cur, "next"), Visit(Cur, "complete")>>
                          ELSE <<Visit(Cur, "complete")>>)
  /\ result' = NoResult
  /\ UNCHANGED <<reason, observers, tokinfo, subs, log, raised, hostErrors, escaped,
                 calls, passes, fireOrder, left>>

\* try { observer.next(this._reason) }: the user observer's next starts.
DeliverNext ==
  /\ InPass /\ subs[Cur].open /\ subs[Cur].fwd = 0 /\ Top.ph = "next"
  /\ log' = Append(log, [sub |-> Cur, m |-> "next", val |-> reason[Top.tok],
                          pass |-> CurPass])
  /\ passlog' = Visited(<<Visit(Cur, "next")>>)
  /\ stack' = Append(ReplaceTop(stack, [Top EXCEPT !.ph = "complete"]),
                     Frame("cb", Top.tok, Cur, <<>>, 0, "next", ""))
  /\ result' = NoResult
  /\ UNCHANGED <<reason, observers, tokinfo, subs, raised, hostErrors, escaped,
                 calls, passes, fireOrder, left>>

\* try { observer.complete() }: the subscription closes, then the user
\* observer's complete starts; cleanup follows when it ends.
DeliverComplete ==
  /\ InPass /\ subs[Cur].open /\ subs[Cur].fwd = 0 /\ Top.ph = "complete"
  /\ subs' = [subs EXCEPT ![Cur].open = FALSE, ![Cur].closedBy = "complete"]
  /\ log' = Append(log, [sub |-> Cur, m |-> "complete", val |-> Undefined,
                          pass |-> CurPass])
  /\ passlog' = Visited(<<Visit(Cur, "complete")>>)
  /\ stack' = Append(ReplaceTop(stack, [Top EXCEPT !.ph = "cleanup"]),
                     Frame("cb", Top.tok, Cur, <<>>, 0, "complete", ""))
  /\ result' = NoResult
  /\ UNCHANGED <<reason, observers, tokinfo, raised, hostErrors, escaped,
                 calls, passes, fireOrder, left>>

\* observer.next(this._reason) where the observer's next is a race token's
\* trigger (race: token.subscribe(cancel)).
ForwardNext ==
  /\ InPass /\ subs[Cur].open /\ subs[Cur].fwd # 0 /\ Top.ph = "next"
  /\ Trigger(subs[Cur].fwd, reason[Top.tok],
             ReplaceTop(stack, [Top EXCEPT !.ph = "complete"]),
             Visited(<<Visit(Cur, "next")>>))
  /\ result' = NoResult
  /\ UNCHANGED <<observers, tokinfo, subs, log, raised, hostErrors, escaped, left>>

\* observer.complete() on race's observer, which has no complete: the
\* subscription closes and cleans up.
ForwardComplete ==
  /\ InPass /\ subs[Cur].open /\ subs[Cur].fwd # 0 /\ Top.ph = "complete"
  /\ subs' = [subs EXCEPT ![Cur].open = FALSE, ![Cur].cleanup = FALSE,
                          ![Cur].closedBy = "complete"]
  /\ observers' = ObserversAfterCleanup(Cur)
  /\ stack' = Advance
  /\ passlog' = Visited(<<Visit(Cur, "complete")>>)
  /\ result' = NoResult
  /\ UNCHANGED <<reason, tokinfo, log, raised, hostErrors, escaped, calls, passes,
                 fireOrder, left>>

\* this._observers.clear(), and the pass returns; a subscribe that replayed
\* returns its subscription.
DispatchEnd ==
  /\ stack # <<>> /\ Top.op = "dispatch" /\ Top.i > Len(Top.snap)
  /\ observers' = [observers EXCEPT ![Top.tok] = <<>>]
  /\ passlog' = [passlog EXCEPT ![CurPass].done = TRUE]
  /\ subs' = IF Top.via = "subscribe" /\ subs[Top.sub].fwd = 0
               THEN [subs EXCEPT ![Top.sub].handle = TRUE]
               ELSE subs
  /\ stack' = Pop
  /\ result' = NoResult
  /\ UNCHANGED <<reason, tokinfo, log, raised, hostErrors, escaped, calls, passes,
                 fireOrder, left>>

\* A callback of a user observer ends (normally or by raising): control is
\* back in the SubscriptionObserver, which after complete cleans up, and then
\* in _dispatch.
Resume ==
  LET cb == Top
  IN IF cb.ph = "complete"
       THEN /\ subs' = [subs EXCEPT ![cb.sub].cleanup = FALSE]
            /\ observers' = ObserversAfterCleanup(cb.sub)
            /\ stack' = ReplaceTop(Pop, [Pop[Len(Pop)] EXCEPT !.i = @ + 1, !.ph = "next"])
       ELSE /\ subs' = subs /\ observers' = observers
            /\ stack' = Pop

CbReturn ==
  /\ stack # <<>> /\ Top.op = "cb"
  /\ Resume
  /\ result' = NoResult
  /\ UNCHANGED <<passlog, reason, tokinfo, log, raised, hostErrors, escaped, calls, passes,
                 fireOrder, left>>

\* _dispatch without the try/catch: the error unwinds every caller.
DispatchNoCatch(e) ==
  /\ hostErrors' = hostErrors
  /\ escaped' = escaped + 1
  /\ stack' = <<>> /\ subs' = subs /\ observers' = observers

\* One try/catch around both deliveries: an error raised by next skips the
\* observer's complete.
DispatchCatchOnce(e) ==
  /\ hostErrors' = Append(hostErrors, e)
  /\ escaped' = escaped
  /\ IF Top.ph = "next"
       THEN /\ subs' = subs /\ observers' = observers
            /\ stack' = ReplaceTop(Pop, [Pop[Len(Pop)] EXCEPT !.i = @ + 1,
                                                              !.ph = "next"])
       ELSE Resume

\* catch (e) { HostReportErrors(e) } around each of the two deliveries.
DispatchCatch(e) ==
  /\ hostErrors' = Append(hostErrors, e)
  /\ escaped' = escaped
  /\ Resume

CbThrow ==
  /\ stack # <<>> /\ Top.op = "cb" /\ Len(raised) < MaxThrows
  /\ LET e == [sub |-> Top.sub, m |-> Top.ph]
     IN /\ raised' = Append(raised, e)
        /\ DispatchCatch(e)
  /\ result' = NoResult
  /\ UNCHANGED <<passlog, reason, tokinfo, log, calls, passes, fireOrder, left>>

\* -------------------------------------------------------------------- race
\* The lists user code hands to race: tokens it holds, none twice.
RaceLists ==
  {l \in UNION {[1..n -> Tokens] : n \in 0..MaxRaceLen} :
     /\ \A i \in DOMAIN l : Live(l[i])
     /\ \A i, j \in DOMAIN l : i # j => l[i] # l[j]}

\* CancelToken.race(list): the constructor starts running fn.
NewRace(list) ==
  /\ stack = <<>> /\ left > 0
  /\ reason' = Append(reason, Undefined)
  /\ observers' = Append(observers, <<>>)
  /\ tokinfo' = Append(tokinfo, NewToken(TRUE, list))
  /\ calls' = Append(calls, <<>>) /\ passes' = Append(passes, 0)
  /\ stack' = <<Frame("race", Len(reason) + 1, 0, <<>>, 1, "", "")>>
  /\ left' = left - 1
  /\ result' = NoResult
  /\ UNCHANGED <<passlog, subs, log, raised, hostErrors, escaped, fireOrder>>

\* for (let token of list) token.subscribe(cancel): one iteration.
RaceSubscribe ==
  /\ stack # <<>> /\ Top.op = "race" /\ Top.i <= Len(tokinfo[Top.tok].list)
  /\ LET u    == tokinfo[Top.tok].list[Top.i]
         s    == Len(subs) + 1
         obs  == AddObserver(observers[u], s)
         stk  == ReplaceTop(stack, [Top EXCEPT !.i = @ + 1])
     IN /\ subs' = Append(subs, NewSubscription(u, Top.tok, "race", FALSE))
        /\ observers' = [observers EXCEPT ![u] = obs]
        /\ stack' = IF SubscribeReplays(u)
                      THEN Append(stk, Frame("dispatch", u, s, Snapshot(obs),
                                             1, "next", "subscribe"))
                      ELSE stk
        /\ passlog' = IF SubscribeReplays(u)
                        THEN StartPass(passlog, u, "subscribe", obs)
                        ELSE passlog
  /\ result' = NoResult
  /\ UNCHANGED <<reason, tokinfo, log, raised, hostErrors, escaped, calls, passes,
                 fireOrder, left>>

\* The constructor returns the race token.
RaceEnd ==
  /\ stack # <<>> /\ Top.op = "race" /\ Top.i > Len(tokinfo[Top.tok].list)
  /\ tokinfo' = [tokinfo EXCEPT ![Top.tok].live = TRUE]
  /\ stack' = Pop
  /\ result' = NoResult
  /\ UNCHANGED <<passlog, reason, observers, subs, log, raised, hostErrors, escaped, calls,
                 passes, fireOrder, left>>

\* One token and the operations on it.
Next ==
  \/ \E m \in Msgs : CancelCall(1, m)
  \/ Subscribe(1)
  \/ RawSubscribe(1)
  \/ \E s \in Subs : Unsubscribe(s)
  \/ ThrowIfRequested(1)
  \/ DeliverClosed
  \/ DeliverNext
  \/ DeliverComplete
  \/ DispatchEnd
  \/ CbReturn
  \/ CbThrow

Spec == Init /\ [][Next]_vars

\* Two sources, the race tokens built over them, and observers registered
\* with token.subscribe or on the Observable itself.
InitRace ==
  /\ reason = <<Undefined, Undefined>> /\ observers = << <<>>, <<>> >>
  /\ tokinfo = <<SourceToken, SourceToken>>
  /\ subs = <<>>
  /\ stack = <<>> /\ log = <<>> /\ raised = <<>> /\ hostErrors = <<>>
  /\ escaped = 0 /\ calls = << <<>>, <<>> >> /\ passes = <<0, 0>> /\ fireOrder = <<>>
  /\ left = MaxRaceOps /\ passlog = <<>> /\ result = NoResult

\* The message user code cancels source t with.
MsgOf(t) == IF t = 1 THEN Str("a") ELSE Str("b")

NextRace ==
  \/ \E t \in Tokens : CancelCall(t, MsgOf(t))
  \/ \E t \in Tokens : Subscribe(t)
  \/ \E t \in Tokens : RawSubscribe(t)
  \/ stack = <<>> /\ left > 0 /\ \E l \in RaceLists : NewRace(l)
  \/ RaceSubscribe
  \/ RaceEnd
  \/ DeliverClosed
  \/ DeliverNext
  \/ DeliverComplete
  \/ ForwardNext
  \/ ForwardComplete
  \/ DispatchEnd
  \/ CbReturn
  \/ CbThrow

SpecRace == InitRace /\ [][NextRace]_vars

\* Three sources of which the second and the third were cancelled before
\* anybody subscribed (source.cancel("b"), source.cancel("c")), and what user
\* code does from there.
InitLate ==
  /\ reason = <<Undefined, Cancel(Str("b"), 2), Cancel(Str("c"), 3)>>
  /\ observers = << <<>>, <<>>, <<>> >>
  /\ tokinfo = <<SourceToken, SourceToken, SourceToken>>
  /\ subs = <<>>
  /\ stack = <<>> /\ log = <<>> /\ raised = <<>> /\ hostErrors = <<>>
  /\ escaped = 0 /\ calls = << <<>>, <<Str("b")>>, <<Str("c")>> >>
  /\ passes = <<0, 1, 1>> /\ fireOrder = <<2, 3>>
  /\ left = MaxLateOps
  /\ passlog = <<[tok |-> 2, via |-> "trigger", start |-> <<>>, visits |-> <<>>,
                  done |-> TRUE],
                 [tok |-> 3, via |-> "trigger", start |-> <<>>, visits |-> <<>>,
                  done |-> TRUE]>>
  /\ result = NoResult

\* The lists handed to race here: the three sources, or some of them, in
\* their order.
LateLists ==
  {l \in UNION {[1..n -> 1..3] : n \in 1..MaxLateLen} :
     \A i, j \in DOMAIN l : i < j => l[i] < l[j]}

NextLate ==
  \/ CancelCall(1, Str("a"))
  \/ \E t \in Tokens : Subscribe(t)
  \/ \E t \in 2..3 : RawSubscribe(t)
  \/ stack = <<>> /\ left > 0 /\ \E l \in LateLists : NewRace(l)
  \/ RaceSubscribe
  \/ RaceEnd
  \/ DeliverClosed
  \/ DeliverNext
  \/ DeliverComplete
  \/ ForwardNext
  \/ ForwardComplete
  \/ DispatchEnd
  \/ CbReturn
  \/ CbThrow

SpecLate == InitLate /\ [][NextLate]_vars

\* ------------------------------------------------------------------ claims
Range(f) == {f[i] : i \in DOMAIN f}

\* Where in the log observer s's next (complete) was invoked.
NextIdx(s)     == {i \in DOMAIN log : log[i].sub = s /\ log[i].m = "next"}
CompleteIdx(s) == {i \in DOMAIN log : log[i].sub = s /\ log[i].m = "complete"}

Cancelled(t) == reason[t] # Undefined

\* A _dispatch pass of t is running (somewhere on the stack).
Dispatching(t) ==
  \E i \in DOMAIN stack : stack[i].op = "dispatch" /\ stack[i].tok = t

\* The pass started by t's trigger is running.
TriggerPassRunning(t) ==
  \E i \in DOMAIN stack :
    stack[i].op = "dispatch" /\ stack[i].tok = t /\ stack[i].via = "trigger"

Unsubscribed(s) == subs[s].closedBy \in {"unsubPending", "unsubFired"}

\* Observers registered with token.subscribe while t was Pending and never
\* unsubscribed while open.
EarlyObservers(t) ==
  {s \in Subs : /\ subs[s].tok = t /\ subs[s].how = "subscribe"
                /\ ~subs[s].late /\ ~Unsubscribed(s)}

\* C1: a token's reason is undefined until the first trigger call and from
\* then on is the Cancel built from that first call's message, whatever
\* trigger, subscribe and unsubscribe calls follow.
C1_ReasonWriteOnce ==
  \A t \in Tokens :
    reason[t] = IF calls[t] = <<>> THEN Undefined ELSE Cancel(Head(calls[t]), t)

\* C1 witness: a second trigger call with another message left the reason
\* of the first.
C1_Witness ==
  \E t \in Tokens : /\ Len(calls[t]) >= 2 /\ calls[t][2] # calls[t][1]
                    /\ reason[t] = Cancel(calls[t][1], t)

\* C2 (as claimed): once the first trigger call has returned, every observer
\* registered before it and not unsubscribed got exactly one next, carrying
\* the reason, then exactly one complete, and an earlier observer got both
\* before a later one got its next.
C2_ExactlyOnceInOrder ==
  \A t \in Tokens :
    (Cancelled(t) /\ ~TriggerPassRunning(t)) =>
      /\ \A s \in EarlyObservers(t) :
           /\ Cardinality(NextIdx(s)) = 1
           /\ Cardinality(CompleteIdx(s)) = 1
           /\ \A i \in NextIdx(s) :
                /\ log[i].val = reason[t]
                /\ \A j \in CompleteIdx(s) : i < j
      /\ \A s1, s2 \in EarlyObservers(t) :
           s1 < s2 => \A i \in CompleteIdx(s1), j \in NextIdx(s2) : i < j

\* C3: when token.subscribe on a Cancelled token has returned, its observer
\* got next with the stored reason and then complete.
C3_LateSubscribeReplays ==
  \A s \in Subs :
    (subs[s].how = "subscribe" /\ subs[s].late /\ subs[s].handle) =>
      \E i \in NextIdx(s), j \in CompleteIdx(s) :
        i < j /\ log[i].val = reason[subs[s].tok]

\* C3 witness: such a subscribe, made from an observer callback while a pass
\* of the same token is running, has returned.
C3_Witness ==
  \E s \in Subs : /\ subs[s].how = "subscribe" /\ subs[s].late /\ subs[s].handle
                  /\ Dispatching(subs[s].tok)
                  /\ Len(calls[subs[s].tok]) = 1

\* C4 (as claimed): no observer's next runs twice and no observer's complete
\* runs twice.
C4_NotifiedAtMostOnce ==
  \A s \in Subs : Cardinality(NextIdx(s)) <= 1 /\ Cardinality(CompleteIdx(s)) <= 1

\* C5 (as claimed): with no operation in progress, a token whose reason is
\* set has an empty observer set.
C5_CancelledHasNoObservers ==
  stack = <<>> => \A t \in Tokens : Cancelled(t) => observers[t] = <<>>

\* C6: every error an observer callback raises is handed to the host error
\* sink, none reaches a caller of trigger or subscribe, and once no pass of a
\* Cancelled token is running every observer subscribed to it and not
\* unsubscribed has had its next and its complete, raising observers before
\* it or not.
C6_ErrorsIsolated ==
  /\ escaped = 0
  /\ hostErrors = raised
  /\ \A t \in Tokens :
       (Cancelled(t) /\ ~Dispatching(t)) =>
         \A s \in Subs :
           (subs[s].tok = t /\ subs[s].how = "subscribe" /\ ~Unsubscribed(s)) =>
             NextIdx(s) # {} /\ CompleteIdx(s) # {}

\* C6 witness: the next of an earlier observer raised, was reported, and the
\* later observer of the same pass still got next and complete.
C6_Witness ==
  \E s1, s2 \in Subs :
    /\ s1 < s2 /\ subs[s1].tok = subs[s2].tok
    /\ ~subs[s1].late /\ ~subs[s2].late
    /\ [sub |-> s1, m |-> "next"] \in Range(hostErrors)
    /\ NextIdx(s2) # {} /\ CompleteIdx(s2) # {}
    /\ stack = <<>>

\* C7: an observer unsubscribed while its token was Pending is out of the
\* observer set and is never called; and unsubscribe on a subscription that
\* complete has closed changes no reason, no observer set, calls nobody and
\* starts nothing.
C7_UnsubscribedStaysSilent ==
  \A s \in Subs :
    subs[s].closedBy = "unsubPending" =>
      /\ s \notin Range(observers[subs[s].tok])
      /\ NextIdx(s) = {} /\ CompleteIdx(s) = {}

C7_UnsubscribeAfterDelivery ==
  \A s \in Subs :
    (subs'[s].unsubAfter /\ ~subs[s].unsubAfter /\ subs[s].closedBy = "complete") =>
      /\ reason' = reason /\ observers' = observers
      /\ log' = log /\ stack' = stack

\* C7: both parts together: the invariant of the unsubscribed observer and
\* the step of an unsubscribe after delivery.
C7_Unsubscribe ==
  []C7_UnsubscribedStaysSilent /\ [][C7_UnsubscribeAfterDelivery]_vars

\* C7 witness: the token fired and finished its pass after an observer was
\* unsubscribed while it was Pending.
C7_Witness ==
  \E s \in Subs : /\ subs[s].closedBy = "unsubPending"
                  /\ Cancelled(subs[s].tok) /\ stack = <<>>

\* C8: a trigger call on a Cancelled token changes no reason and no observer
\* set, runs no callback and starts no pass; a token's trigger starts no
\* pass while it is Pending and exactly one once it is Cancelled.
C8_OneDispatch ==
  \A t \in Tokens : passes[t] = IF Cancelled(t) THEN 1 ELSE 0

C8_LaterTriggerNoOp ==
  \A t \in Tokens :
    (Len(calls'[t]) > Len(calls[t]) /\ Cancelled(t)) =>
      /\ reason' = reason /\ observers' = observers /\ subs' = subs
      /\ passes' = passes /\ log' = log
      /\ Len(stack') = Len(stack)

\* C8: both parts together: one pass per Cancelled token, and every later
\* trigger call a no-op.
C8_TriggerIdempotent ==
  []C8_OneDispatch /\ [][C8_LaterTriggerNoOp]_vars

\* C8 witness: a second trigger call was made while the pass of the first
\* was still running, that is from inside an observer callback.
C8_Witness ==
  \E t \in Tokens : Len(calls[t]) >= 2 /\ TriggerPassRunning(t)

\* C9: throwIfRequested changes nothing; it returns normally while the
\* reason is undefined and raises the value the reason accessor returns once
\* the reason is set.
C9_ThrowIfRequestedStep ==
  result' # NoResult =>
    /\ UNCHANGED <<passlog, reason, observers, tokinfo, subs, stack, log, raised,
                   hostErrors, escaped, calls, passes, fireOrder, left>>
    /\ result'.threw = Cancelled(result'.t)
    /\ result'.threw => result'.val = ReasonGet(result'.t)

\* C9: every step of the run is as C9_ThrowIfRequestedStep says: a
\* throwIfRequested call changes nothing and raises the stored reason exactly
\* when one is set.
C9_ThrowIfRequested == [][C9_ThrowIfRequestedStep]_vars

\* C9 witness: throwIfRequested raised the stored reason.
C9_Witness ==
  result.threw /\ result.val.k = "Cancel" /\ result.val = reason[result.t]

\* The inputs of race token T, and the one whose reason was set first.
Inputs(T) == Range(tokinfo[T].list)

FiredInputs(T) == {i \in DOMAIN fireOrder : fireOrder[i] \in Inputs(T)}

FirstFired(T) ==
  fireOrder[CHOOSE i \in FiredInputs(T) : \A j \in FiredInputs(T) : i <= j]

\* C10 (as claimed): when the first input of a race over Pending inputs has
\* fired, the race token is Cancelled and its reason carries the message the
\* input's reason carries.
C10_RaceCarriesMessage ==
  \A T \in Tokens :
    (/\ tokinfo[T].race /\ tokinfo[T].allPending /\ FiredInputs(T) # {}
     /\ ~TriggerPassRunning(FirstFired(T))) =>
      /\ Cancelled(T)
      /\ reason[T].s = reason[FirstFired(T)].s

\* The input whose forwarding observer is being delivered to, when the step
\* is a call of race token T's trigger.
Forwarding(T) ==
  /\ InPass /\ subs[Cur].open /\ subs[Cur].fwd = T /\ Top.ph = "next"
  /\ Len(calls'[T]) = Len(calls[T]) + 1

\* C11: once a race token is Cancelled its reason stays the one built by the
\* first forwarded call, and the firing of another input, which calls the
\* race token's trigger again, changes no reason, starts no pass of the race
\* token and delivers next or complete to nobody.
C11_ReasonOfFirstFiring ==
  \A T \in Tokens :
    (tokinfo[T].race /\ Cancelled(T)) =>
      /\ reason[T] = Cancel(Head(calls[T]), T)
      /\ passes[T] = 1

C11_LaterFiringStep ==
  \A T \in Tokens :
    (tokinfo[T].race /\ Cancelled(T) /\ Forwarding(T)) =>
      /\ reason' = reason /\ observers' = observers /\ subs' = subs
      /\ log' = log /\ passes' = passes /\ fireOrder' = fireOrder
      /\ stack' = ReplaceTop(stack, [Top EXCEPT !.ph = "complete"])

\* C11: the invariant and the step together.
C11_LaterFiringIgnored ==
  []C11_ReasonOfFirstFiring /\ [][C11_LaterFiringStep]_vars

\* C11 witness: a race over two Pending inputs with an observer; one input
\* fired, the observer was notified, then the other input fired and called
\* the race token's trigger a second time.
C11_Witness ==
  \E T \in Tokens :
    /\ tokinfo[T].race /\ tokinfo[T].allPending /\ Len(tokinfo[T].list) = 2
    /\ Len(calls[T]) = 2 /\ stack = <<>>
    /\ \A u \in Inputs(T) : Cancelled(u)
    /\ \E s \in Subs : subs[s].tok = T /\ ~subs[s].late /\ NextIdx(s) # {}

\* C12: a Cancelled race token has a Cancelled input; and while no input of
\* a race token is Cancelled (its list may be empty) the race token is
\* Pending and no observer of it was called.
C12_NoSpuriousFire ==
  \A T \in Tokens :
    tokinfo[T].race =>
      /\ Cancelled(T) => \E u \in Inputs(T) : Cancelled(u)
      /\ (\A u \in Inputs(T) : ~Cancelled(u)) =>
           /\ ~Cancelled(T) /\ calls[T] = <<>>
           /\ \A s \in Subs : subs[s].tok = T => NextIdx(s) = {} /\ CompleteIdx(s) = {}

\* C12 witness: a race token with an observer, whose list is empty or holds
\* only Pending inputs, is Pending after a source outside its list fired.
C12_Witness ==
  \E T \in Tokens :
    /\ tokinfo[T].race /\ tokinfo[T].live /\ ~Cancelled(T) /\ stack = <<>>
    /\ \E s \in Subs : subs[s].tok = T /\ subs[s].open
    /\ \E u \in Tokens : u \notin Inputs(T) /\ Cancelled(u)

\* C12 witness of the other case: a race token fired when its input did.
C12_WitnessFired ==
  \E T \in Tokens : tokinfo[T].race /\ tokinfo[T].allPending /\ Cancelled(T)

\* The race tokens that registered their forwarding observer on token u
\* while u was Pending.
RacesOn(u) ==
  {subs[s].fwd : s \in {x \in Subs : subs[x].tok = u /\ subs[x].fwd # 0
                                                   /\ ~subs[x].late}}

\* The race tokens derived from u: races on u, races on those, and so on.
RECURSIVE DerivedUpTo(_, _)
DerivedUpTo(u, n) ==
  IF n = 0 THEN {}
  ELSE LET d == RacesOn(u)
       IN d \cup UNION {DerivedUpTo(T, n - 1) : T \in d}

Derived(u) == DerivedUpTo(u, Len(reason))

\* The observers user code registered on t while it was Pending and did not
\* unsubscribe.
Registered(t) ==
  {s \in Subs : /\ subs[s].tok = t /\ subs[s].fwd = 0
                /\ ~subs[s].late /\ ~Unsubscribed(s)}

Notified(s) == NextIdx(s) # {} /\ CompleteIdx(s) # {}

\* C13 (as claimed): when the trigger call that fired a token has returned,
\* every race token derived from it is Cancelled and every observer
\* registered on such a race token has had next and complete.
C13_SynchronousThroughRace ==
  \A u \in Tokens :
    (Cancelled(u) /\ ~TriggerPassRunning(u)) =>
      \A T \in Derived(u) :
        Cancelled(T) /\ \A s \in Registered(T) : Notified(s)

\* C13 (amended): the same, except for a race token whose own trigger pass
\* is still running, that is when the input's trigger was called from inside
\* that pass: its observers have had next and complete when that pass ends.
C13_SynchronousUnlessInsideOwnPass ==
  \A u \in Tokens :
    (Cancelled(u) /\ ~TriggerPassRunning(u)) =>
      \A T \in Derived(u) :
        /\ Cancelled(T)
        /\ ~TriggerPassRunning(T) => \A s \in Registered(T) : Notified(s)

\* C13 witness: a source fired, and the observer of a race of a race over it
\* had next and complete while the source's trigger pass was still running.
C13_Witness ==
  \E u, T1, T2 \in Tokens :
    /\ ~tokinfo[u].race /\ T1 \in RacesOn(u) /\ T2 \in RacesOn(T1)
    /\ tokinfo[T2].allPending /\ tokinfo[T1].allPending
    /\ TriggerPassRunning(u) /\ ~TriggerPassRunning(T2)
    /\ \E s \in Registered(T2) : Notified(s)

\* The observer whose callback raised error e.
Raiser(e) == e.sub

\* C14: when an observer callback has raised, the error went to the host
\* sink and to no caller; once the trigger call that fired a token has
\* returned, the observers registered on that token have had next and
\* complete, and every race token derived from it is Cancelled and (its own
\* pass over) its observers have had next and complete, whichever token the
\* raising observer was registered on.
C14_FailuresStayInsideToken ==
  raised # <<>> =>
    /\ escaped = 0 /\ hostErrors = raised
    /\ \A u \in Tokens :
         (Cancelled(u) /\ ~TriggerPassRunning(u)) =>
           /\ \A s \in Registered(u) : Notified(s)
           /\ \A T \in RacesOn(u) :
                /\ Cancelled(T)
                /\ ~TriggerPassRunning(T) => \A s \in Registered(T) : Notified(s)

\* C14 witness: an observer of the input, registered before race's
\* forwarding observer, raised in next, and the race token fired and
\* notified its observer.
C14_Witness ==
  \E e \in Range(raised) : \E T \in RacesOn(subs[Raiser(e)].tok) : \E f \in Subs :
    /\ e.m = "next" /\ stack = <<>>
    /\ subs[f].fwd = T /\ subs[f].tok = subs[Raiser(e)].tok /\ Raiser(e) < f
    /\ ~subs[Raiser(e)].late
    /\ Cancelled(T) /\ \E s \in Registered(T) : Notified(s)

\* C14 witness: the same with the raising observer registered after race's
\* forwarding observer, raising in complete.
C14_WitnessRaiserAfter ==
  \E e \in Range(raised) : \E T \in RacesOn(subs[Raiser(e)].tok) : \E f \in Subs :
    /\ e.m = "complete" /\ stack = <<>>
    /\ subs[f].fwd = T /\ subs[f].tok = subs[Raiser(e)].tok /\ f < Raiser(e)
    /\ ~subs[Raiser(e)].late
    /\ Cancelled(T) /\ \E s \in Registered(T) : Notified(s)

\* C14 witness: an observer of the race token raised, and an observer of the
\* input registered after the forwarding observer was notified by the
\* input's pass.
C14_WitnessRaceObserverRaised ==
  \E e \in Range(raised) : \E u \in Inputs(subs[Raiser(e)].tok) : \E f, y \in Subs :
    /\ tokinfo[subs[Raiser(e)].tok].race /\ ~subs[Raiser(e)].late /\ stack = <<>>
    /\ subs[f].fwd = subs[Raiser(e)].tok /\ subs[f].tok = u /\ ~subs[f].late
    /\ f < y /\ y \in Registered(u) /\ Notified(y)

\* next then complete on each observer of obs, in order.
RECURSIVE VisitsOf(_)
VisitsOf(obs) ==
  IF obs = <<>> THEN <<>>
  ELSE <<Visit(Head(obs), "next"), Visit(Head(obs), "complete")>> \o VisitsOf(Tail(obs))

IsPrefix(a, b) == Len(a) <= Len(b) /\ a = SubSeq(b, 1, Len(a))

\* The callbacks of user observers that pass n ran, in order.
RECURSIVE RanFrom(_, _)
RanFrom(n, i) ==
  IF i > Len(log) THEN <<>>
  ELSE (IF log[i].pass = n THEN <<Visit(log[i].sub, log[i].m)>> ELSE <<>>)
       \o RanFrom(n, i + 1)

Ran(n) == RanFrom(n, 1)

UserObservers(obs) == SelectSeq(obs, LAMBDA s : subs[s].fwd = 0)

C15_WitnessSubscribeDuringPass ==
  \E n, m \in DOMAIN passlog :
    /\ passlog[n].via = "trigger" /\ passlog[n].done /\ Len(passlog[n].start) = 2
    /\ n < m /\ passlog[m].via = "subscribe" /\ passlog[m].tok = passlog[n].tok
    /\ \E s \in Range(passlog[m].start) :
         /\ s \notin Range(passlog[n].start)
         /\ Visit(s, "next") \notin Range(passlog[n].visits)
    /\ Range(passlog[n].start) \subseteq Range(passlog[m].start)

\* The forwarding observers race token T has in the observer set of u.
ForwardersIn(T, u) ==
  {f \in Range(observers[u]) : subs[f].fwd = T /\ subs[f].tok = u /\ subs[f].open}

\* C16: once race has returned token T, every input of T that is still
\* Pending has T's forwarding observer in its observer set, whether T has
\* fired or not; so the observer leaves the set only when that input fires.
C16_LosersStayRegistered ==
  \A T \in Tokens :
    (tokinfo[T].race /\ tokinfo[T].live) =>
      \A u \in Inputs(T) : ~Cancelled(u) => Cardinality(ForwardersIn(T, u)) = 1

\* C16 witness: a race of two inputs fired because one did, every pass has
\* returned, and the other input is Pending with the forwarding observer in
\* its set.
C16_Witness ==
  \E T \in Tokens : \E u, w \in Inputs(T) :
    /\ tokinfo[T].live /\ stack = <<>>
    /\ Cancelled(T) /\ Cancelled(w) /\ ~Cancelled(u)
    /\ ForwardersIn(T, u) # {}

\* C16 witness: the losing input fired later and only then lost the
\* forwarding observer.
C16_WitnessLoserFired ==
  \E T \in Tokens : \E u, w \in Inputs(T) :
    /\ tokinfo[T].live /\ stack = <<>> /\ u # w
    /\ Cancelled(T) /\ Cancelled(w) /\ Cancelled(u)
    /\ reason[T].id = T /\ Len(calls[T]) = 2
    /\ ForwardersIn(T, u) = {}

\* Observers registered on the Observable of t itself after t's reason was
\* set, and not unsubscribed.
LateRaw(t) ==
  {s \in Subs : /\ subs[s].tok = t /\ subs[s].how = "raw" /\ subs[s].late
                /\ ~Unsubscribed(s)}

\* token.subscribe calls on the token of s made after s was registered, and
\* those of them that have returned.
SubscribesAfter(s) ==
  {x \in Subs : x > s /\ subs[x].tok = subs[s].tok /\ subs[x].how # "raw"}

ReturnedSubscribesAfter(s) ==
  {x \in SubscribesAfter(s) : subs[x].how = "subscribe" /\ subs[x].handle}

\* What C17 says of observer s: in the set and not called while no
\* token.subscribe call followed; called with next, then complete, when one
\* that followed has returned.
ReplayedByNextSubscribe(s) ==
  /\ SubscribesAfter(s) = {} =>
       /\ s \in Range(observers[subs[s].tok]) /\ Cancelled(subs[s].tok)
       /\ NextIdx(s) = {} /\ CompleteIdx(s) = {}
  /\ ReturnedSubscribesAfter(s) # {} =>
       \E i \in NextIdx(s) : \E j \in CompleteIdx(s) :
         /\ i < j /\ log[i].val = reason[subs[s].tok]
         /\ \A k \in NextIdx(s) \cup CompleteIdx(s) : i <= k

\* C17 (as claimed): every observer registered on the Observable after the
\* token was Cancelled is as ReplayedByNextSubscribe says.
C17_RawObserverWaitsForSubscribe ==
  \A t \in Tokens : \A s \in LateRaw(t) : ReplayedByNextSubscribe(s)

\* C17 (amended): so is every one registered while no _dispatch pass of the
\* token was running, and registering it calls nobody.
C17_IdleRawObserverWaits ==
  \A t \in Tokens : \A s \in LateRaw(t) : ~subs[s].during => ReplayedByNextSubscribe(s)

C17_RegistrationSilent ==
  \A t \in Tokens :
    (Cancelled(t) /\ Len(subs') > Len(subs) /\ subs'[Len(subs')].how = "raw"
       /\ subs'[Len(subs')].tok = t) =>
      /\ log' = log /\ stack' = stack /\ passlog' = passlog /\ reason' = reason
      /\ observers'[t] = Append(observers[t], Len(subs'))

\* C17 (amended): the invariant and the step together.
C17_RawObserverAfterCancel ==
  []C17_IdleRawObserverWaits /\ [][C17_RegistrationSilent]_vars

\* C17 witness: an observer registered on the Observable of an idle
\* Cancelled token was called, next then complete, by a later token.subscribe
\* call, which has returned.
C17_Witness ==
  \E t \in Tokens : \E s \in LateRaw(t) :
    /\ ~subs[s].during /\ ReturnedSubscribesAfter(s) # {} /\ stack = <<>>
    /\ NextIdx(s) # {} /\ CompleteIdx(s) # {}

\* C17 witness: such an observer waiting in the set of an idle Cancelled
\* token.
C17_WitnessWaiting ==
  \E t \in Tokens : \E s \in LateRaw(t) :
    /\ ~subs[s].during /\ SubscribesAfter(s) = {} /\ stack = <<>>
    /\ result # NoResult /\ s \in Range(observers[t])

\* Race tokens that race has returned and whose list held a token that was
\* Cancelled when race was called.
RacesOverCancelled ==
  {T \in Tokens : tokinfo[T].race /\ tokinfo[T].live /\ tokinfo[T].cancelledAtCall # <<>>}

\* The first part of C18: such a race token is Cancelled when race returns.
C18_CancelledAtReturn ==
  \A T \in RacesOverCancelled : Cancelled(T)

\* The second part: with several such inputs the race token's trigger was
\* first called with the reason of the first of them in list order.
C18_FirstInListWins ==
  \A T \in RacesOverCancelled :
    Len(tokinfo[T].cancelledAtCall) >= 2 =>
      /\ calls[T] # <<>>
      /\ Head(calls[T]) = reason[tokinfo[T].cancelledAtCall[1]]

\* The third part: a token.subscribe call on it that has returned delivered
\* next with its reason, then complete, to the new observer.
C18_SubscriberReplayed ==
  \A T \in RacesOverCancelled : \A s \in Subs :
    (subs[s].tok = T /\ subs[s].how = "subscribe" /\ subs[s].handle) =>
      \E i \in NextIdx(s), j \in CompleteIdx(s) : i < j /\ log[i].val = reason[T]

\* C18 (as claimed): race over a list with an already Cancelled token
\* returns a Cancelled token; with several already Cancelled inputs the
\* winner is the first of them in list order; a subscriber to the race token
\* is replayed to during its subscribe call.
C18_RaceOverCancelled ==
  C18_CancelledAtReturn /\ C18_FirstInListWins /\ C18_SubscriberReplayed

\* A pass on the stack is about to call complete on observer s.
CompleteIsNext(s) ==
  \E i \in DOMAIN stack :
    /\ stack[i].op = "dispatch" /\ stack[i].i <= Len(stack[i].snap)
    /\ stack[i].snap[stack[i].i] = s /\ stack[i].ph = "complete"

\* C19: every error a callback raises is handed to the host sink once and
\* reaches no caller; and when an observer's next has raised, the pass calls
\* that observer's complete next, before any other observer: the complete
\* callback has run, or is the call the pass makes next, unless the observer
\* was unsubscribed meanwhile.
C19_SeparateGuards ==
  /\ hostErrors = raised /\ escaped = 0
  /\ \A e \in Range(raised) :
       e.m = "next" =>
         /\ CompleteIdx(e.sub) # {} \/ CompleteIsNext(e.sub) \/ Unsubscribed(e.sub)
         /\ \A n \in DOMAIN passlog : \A k \in DOMAIN passlog[n].visits :
              (passlog[n].visits[k] = Visit(e.sub, "next") /\ k < Len(passlog[n].visits))
                => passlog[n].visits[k + 1] = Visit(e.sub, "complete")

\* C19 witness: the next of the first of two observers raised, its complete
\* ran all the same and raised too, both errors were reported, and then the
\* second observer got next and complete.
C19_Witness ==
  \E s1, s2 \in Subs :
    /\ stack = <<>>
    /\ raised = <<[sub |-> s1, m |-> "next"], [sub |-> s1, m |-> "complete"]>>
    /\ hostErrors = raised
    /\ s1 < s2 /\ subs[s2].tok = subs[s1].tok /\ ~subs[s2].late /\ ~subs[s1].late
    /\ \E i \in NextIdx(s1), j \in CompleteIdx(s1), k \in NextIdx(s2) :
         i < j /\ j < k /\ log[i].pass = log[j].pass /\ log[j].pass = log[k].pass
    /\ CompleteIdx(s2) # {}

====
